---- MODULE Spec2Model ----
(***************************************************************************)
(* A model of seagull's grid state (seagull/board.py: Board and            *)
(* MultiStateBoard) and of its rule engine (seagull/rules.py: life_rule,   *)
(* conway_classic, rps_life_rule, _parse_rulestring, _count_neighbors).    *)
(*                                                                         *)
(* Arrays are functions over 0-based index tuples, as numpy indexes them.  *)
(* A boolean array holds TRUE/FALSE; where the code compares or counts a   *)
(* boolean as a number, the conversion is written out (AsInt, AsBool).     *)
(***************************************************************************)
EXTENDS Integers, Sequences, FiniteSets, TLC

VARIABLES
    cls,              \* class of the board object: "Board" | "MultiStateBoard"
    size,             \* self.size: <<rows, cols>> or <<states, rows, cols>>
    state,            \* self.state: the boolean array
    raised,           \* exception that left the last call ("none" when it returned)
    logged,           \* loguru records emitted by the last call, in order
    call,             \* what the last call was asked to do (observer's record)
    X,                \* input array of a rule function
    rulestring,       \* rulestring argument, a sequence of characters
    cycle_thresholds, \* cycle_thresholds argument
    out               \* what the last rule-function call returned or raised

vars == <<cls, size, state, raised, logged, call,
          X, rulestring, cycle_thresholds, out>>

boardVars == <<cls, size, state, raised, logged, call>>
ruleVars == <<X, rulestring, cycle_thresholds, out>>

----------------------------------------------------------------------------
(* Bounds of the model.                                                    *)

MaxBoardCells == 2
MaxStates == 2
MaxGridCells == 4
MaxDigits == 2
MaxLayers == 3
MaxThresholds == 1
MaxLen == 5

----------------------------------------------------------------------------
(* Arrays.                                                                 *)

Min(a, b) == IF a < b THEN a ELSE b
Max(a, b) == IF a > b THEN a ELSE b

\* Shapes <<rows, cols>> with at least one cell and at most maxCells cells.
Shapes(maxCells) ==
    {s \in (1..maxCells) \X (1..maxCells) : s[1] * s[2] <= maxCells}

Idx2(shape) == (0..(shape[1] - 1)) \X (0..(shape[2] - 1))
Idx3(shape) == (0..(shape[1] - 1)) \X (0..(shape[2] - 1)) \X (0..(shape[3] - 1))

\* np.zeros(shape, dtype=bool)
Zeros2(shape) == [p \in Idx2(shape) |-> FALSE]
Zeros3(shape) == [p \in Idx3(shape) |-> FALSE]

\* A lifeform exposes size = layout.shape and a boolean layout of that shape.
\* The lifeforms tried: a single cell, a horizontal and a vertical pair, each
\* with every boolean layout.
LifeformShapes == {<<1, 1>>, <<1, 2>>, <<2, 1>>}
Lifeforms ==
    UNION {{[size |-> s, layout |-> l] : l \in [Idx2(s) -> BOOLEAN]} :
           s \in LifeformShapes}

\* Python's slice.indices: where a slice bound i lands on an axis of length n.
SliceBound(i, n) == IF i < 0 THEN Max(i + n, 0) ELSE Min(i, n)

\* The indices a[start : start + len] selects on an axis of length n.
SliceStart(start, n) == SliceBound(start, n)
SliceLen(start, len, n) ==
    Max(SliceBound(start + len, n) - SliceBound(start, n), 0)

\* numpy broadcasting of a value of shape <<h, w>> into a target <<th, tw>>.
Broadcasts(vshape, tshape) ==
    /\ vshape[1] = tshape[1] \/ vshape[1] = 1
    /\ vshape[2] = tshape[2] \/ vshape[2] = 1

\* A mutant of AssignSlice: the clipped region is written before the shape
\* mismatch is reported.
AssignSlicePartial(arr, shape, loc, lifeform) ==
    LET h == lifeform.size[1]
        w == lifeform.size[2]
        r0 == SliceStart(loc[1], shape[1])
        c0 == SliceStart(loc[2], shape[2])
        th == SliceLen(loc[1], h, shape[1])
        tw == SliceLen(loc[2], w, shape[2])
    IN  [ok  |-> Broadcasts(<<h, w>>, <<th, tw>>),
         arr |-> [p \in DOMAIN arr |->
                    IF /\ p[1] >= r0 /\ p[1] < r0 + th
                       /\ p[2] >= c0 /\ p[2] < c0 + tw
                    THEN lifeform.layout[<<Min(p[1] - r0, h - 1),
                                           Min(p[2] - c0, w - 1)>>]
                    ELSE arr[p]]]

\* arr[row : row + height, col : col + width] = lifeform.layout
\* The slices are clipped to the array; the layout must broadcast to the
\* clipped target, else numpy raises ValueError and writes nothing.
AssignSlice(arr, shape, loc, lifeform) ==
    LET h == lifeform.size[1]
        w == lifeform.size[2]
        r0 == SliceStart(loc[1], shape[1])
        c0 == SliceStart(loc[2], shape[2])
        th == SliceLen(loc[1], h, shape[1])
        tw == SliceLen(loc[2], w, shape[2])
        ok == Broadcasts(<<h, w>>, <<th, tw>>)
    IN  [ok  |-> ok,
         arr |-> IF ~ok THEN arr
                 ELSE [p \in DOMAIN arr |->
                        IF /\ p[1] >= r0 /\ p[1] < r0 + th
                           /\ p[2] >= c0 /\ p[2] < c0 + tw
                        THEN lifeform.layout[<<IF h = 1 THEN 0 ELSE p[1] - r0,
                                               IF w = 1 THEN 0 ELSE p[2] - c0>>]
                        ELSE arr[p]]]

\* A mutant of StampLayers: the lifeform is inserted into the target layer
\* but not removed from the other layers.
StampLayersNoRemove(st, mask, s) ==
    [p \in DOMAIN st |->
        IF mask[<<p[2], p[3]>>] /\ p[1] = s THEN TRUE ELSE st[p]]

\* for s in range(len(self.state)):
\*     self.state[s, mask.astype(bool)] = (s == state)
StampLayers(st, mask, s) ==
    [p \in DOMAIN st |->
        IF mask[<<p[2], p[3]>>] THEN p[1] = s ELSE st[p]]

\* The footprint [row, row+h) x [col, col+w) leaves the grid of shape
\* <<R, C>>.
FootprintOutside(shape, loc, lsize) ==
    \/ loc[1] < 0
    \/ loc[2] < 0
    \/ loc[1] + lsize[1] > shape[1]
    \/ loc[2] + lsize[2] > shape[2]

\* Anchors tried on an axis of length n: from -n (the whole negative range
\* Python wraps) to n (the anchor at the edge).
Anchors(n) == (-n)..n
Locs(shape) == Anchors(shape[1]) \X Anchors(shape[2])

ErrOutOfBounds == <<"ERROR", "Lifeform is out-of-bounds!">>
ErrInvalidState == <<"ERROR", "Lifeform has an invalid state">>
DbgCleared == <<"DEBUG", "Board cleared!">>

Unused == "unused"

----------------------------------------------------------------------------
(* Board and MultiStateBoard.                                              *)

NoCall == [op |-> "new", out_of_bounds |-> FALSE, state_in_range |-> TRUE]

\* Board(size)
BoardNew(shape) ==
    /\ cls = "Board"
    /\ size = shape
    /\ state = Zeros2(shape)

\* MultiStateBoard(states, size): all cells begin in state 0
MultiStateBoardNew(states, shape) ==
    /\ cls = "MultiStateBoard"
    /\ size = <<states, shape[1], shape[2]>>
    /\ state = [p \in Idx3(<<states, shape[1], shape[2]>>) |-> p[1] = 0]

Init ==
    /\ \/ \E shape \in Shapes(MaxBoardCells) : BoardNew(shape)
       \/ \E shape \in Shapes(MaxBoardCells), states \in 1..MaxStates :
              MultiStateBoardNew(states, shape)
    /\ raised = "none"
    /\ logged = <<>>
    /\ call = NoCall
    /\ X = Unused
    /\ rulestring = Unused
    /\ cycle_thresholds = Unused
    /\ out = Unused

\* Board.add(lifeform, loc)
BoardAdd(lifeform, loc) ==
    /\ cls = "Board"
    /\ LET res == AssignSlice(state, size, loc, lifeform)
           oob == FootprintOutside(size, loc, lifeform.size)
       IN  /\ state' = res.arr
           /\ raised' = IF res.ok THEN "none" ELSE "ValueError"
           /\ logged' = IF res.ok THEN <<>> ELSE <<ErrOutOfBounds>>
           /\ call' = [op |-> "add", out_of_bounds |-> oob,
                       state_in_range |-> TRUE]
    /\ UNCHANGED <<cls, size>>
    /\ UNCHANGED ruleVars

\* MultiStateBoard.add(lifeform, loc, state)
MultiStateBoardAdd(lifeform, loc, s) ==
    /\ cls = "MultiStateBoard"
    /\ LET shape == <<size[2], size[3]>>
           res == AssignSlice(Zeros2(shape), shape, loc, lifeform)
           invalid == IF s >= size[1] THEN <<ErrInvalidState>> ELSE <<>>
           oob == FootprintOutside(shape, loc, lifeform.size)
           inRange == (0 <= s /\ s < size[1])
       IN  /\ state' = IF res.ok THEN StampLayers(state, res.arr, s) ELSE state
           /\ raised' = IF res.ok THEN "none" ELSE "ValueError"
           /\ logged' = IF res.ok THEN invalid
                        ELSE invalid \o <<ErrOutOfBounds>>
           /\ call' = [op |-> "add", out_of_bounds |-> oob,
                       state_in_range |-> inRange]
    /\ UNCHANGED <<cls, size>>
    /\ UNCHANGED ruleVars

\* Board.clear()
BoardClear ==
    /\ cls = "Board"
    /\ state' = Zeros2(size)
    /\ raised' = "none"
    /\ logged' = <<DbgCleared>>
    /\ call' = [op |-> "clear", out_of_bounds |-> FALSE, state_in_range |-> TRUE]
    /\ UNCHANGED <<cls, size>>
    /\ UNCHANGED ruleVars

\* MultiStateBoard.clear()
MultiStateBoardClear ==
    /\ cls = "MultiStateBoard"
    /\ state' = Zeros3(size)
    /\ raised' = "none"
    /\ logged' = <<DbgCleared>>
    /\ call' = [op |-> "clear", out_of_bounds |-> FALSE, state_in_range |-> TRUE]
    /\ UNCHANGED <<cls, size>>
    /\ UNCHANGED ruleVars

Next ==
    \/ /\ cls = "Board"
       /\ \E lifeform \in Lifeforms, loc \in Locs(size) :
              BoardAdd(lifeform, loc)
    \/ /\ cls = "MultiStateBoard"
       /\ \E lifeform \in Lifeforms, loc \in Locs(<<size[2], size[3]>>),
             s \in (-1)..size[1] :
              MultiStateBoardAdd(lifeform, loc, s)
    \/ BoardClear
    \/ MultiStateBoardClear

Spec == Init /\ [][Next]_vars

----------------------------------------------------------------------------
(* Rule engine (seagull/rules.py).                                         *)

\* A boolean read as a number, as numpy does in arithmetic and comparisons.
AsInt(b) == IF b THEN 1 ELSE 0
\* A number stored into a bool array.
AsBool(n) == n # 0

\* A.shape of a 2-D array and of a 3-D stack of layers: the number of
\* indices along each axis.
Shape2(A) ==
    <<Cardinality({p[1] : p \in DOMAIN A}),
      Cardinality({p[2] : p \in DOMAIN A})>>
Shape3(A) ==
    <<Cardinality({p[1] : p \in DOMAIN A}),
      Cardinality({p[2] : p \in DOMAIN A}),
      Cardinality({p[3] : p \in DOMAIN A})>>

\* X[state]: one layer of a stack of the given shape.
Layer(A, shape, s) ==
    [p \in Idx2(<<shape[2], shape[3]>>) |-> A[<<s, p[1], p[2]>>]]

\* convolve2d's boundary="wrap": an index one step outside an axis of length
\* n re-enters at the other end.
WrapIndex(i, n) == IF i < 0 THEN i + n ELSE IF i >= n THEN i - n ELSE i

\* convolve2d(A, np.ones((3, 3)), mode="same", boundary="wrap") at p.
Convolve3x3Wrap(A, shape, p) ==
    LET v(dr, dc) == AsInt(A[<<WrapIndex(p[1] + dr, shape[1]),
                               WrapIndex(p[2] + dc, shape[2])>>])
    IN  v(-1, -1) + v(-1, 0) + v(-1, 1)
      + v(0, -1)  + v(0, 0)  + v(0, 1)
      + v(1, -1)  + v(1, 0)  + v(1, 1)

\* A mutant of _count_neighbors: boundary="fill", cells outside the grid
\* count as dead.
CountNeighborsFill(A) ==
    LET shape == Shape2(A)
        v(r, c) == IF <<r, c>> \in DOMAIN A THEN AsInt(A[<<r, c>>]) ELSE 0
    IN  [p \in DOMAIN A |->
            v(p[1] - 1, p[2] - 1) + v(p[1] - 1, p[2]) + v(p[1] - 1, p[2] + 1)
          + v(p[1], p[2] - 1)                         + v(p[1], p[2] + 1)
          + v(p[1] + 1, p[2] - 1) + v(p[1] + 1, p[2]) + v(p[1] + 1, p[2] + 1)]

\* _count_neighbors(X)
CountNeighbors(A) ==
    LET shape == Shape2(A)
    IN  [p \in DOMAIN A |-> Convolve3x3Wrap(A, shape, p) - AsInt(A[p])]

\* Characters of a rulestring.
Digits08 == {"0", "1", "2", "3", "4", "5", "6", "7", "8"}
DigitChars == Digits08 \cup {"9"}
\* int(s) of a digit character
IntOf(ch) ==
    CASE ch = "0" -> 0 [] ch = "1" -> 1 [] ch = "2" -> 2 [] ch = "3" -> 3
      [] ch = "4" -> 4 [] ch = "5" -> 5 [] ch = "6" -> 6 [] ch = "7" -> 7
      [] ch = "8" -> 8 [] ch = "9" -> 9

\* Length of the longest run of [0-8] characters of r starting at index i.
RECURSIVE DigitRun(_, _)
DigitRun(r, i) ==
    IF i <= Len(r) /\ r[i] \in Digits08 THEN 1 + DigitRun(r, i + 1) ELSE 0

\* re.compile("B([0-8]+)?/S([0-8]+)?").match(r): the pattern matches a
\* prefix of r; what follows the prefix is not looked at.
PatternMatch(r) ==
    /\ Len(r) >= 1
    /\ r[1] = "B"
    /\ LET k == DigitRun(r, 2)
       IN  /\ Len(r) >= k + 3
           /\ r[k + 2] = "/"
           /\ r[k + 3] = "S"

\* r.split("/")
RECURSIVE SplitSlash(_)
SplitSlash(r) ==
    IF \A i \in 1..Len(r) : r[i] # "/" THEN <<r>>
    ELSE LET i == CHOOSE j \in 1..Len(r) :
                      r[j] = "/" /\ \A k \in 1..(j - 1) : r[k] # "/"
         IN  <<SubSeq(r, 1, i - 1)>> \o SplitSlash(SubSeq(r, i + 1, Len(r)))

\* [int(s) for s in part if s.isdigit()]
RECURSIVE DigitsOf(_)
DigitsOf(part) ==
    IF part = <<>> THEN <<>>
    ELSE (IF Head(part) \in DigitChars THEN <<IntOf(Head(part))>> ELSE <<>>)
           \o DigitsOf(Tail(part))

ErrRulestring == <<"ERROR", "Rulestring must satisfy the pattern">>

\* _parse_rulestring(r).  A ValueError comes either from the pattern check
\* (logged) or from unpacking r.split("/") into two names (not logged).
ParseRulestring(r) ==
    IF PatternMatch(r)
    THEN LET parts == SplitSlash(r)
         IN  IF Len(parts) # 2
             THEN [raised |-> "ValueError", logged |-> <<>>]
             ELSE [raised |-> "none", logged |-> <<>>,
                   value |-> <<DigitsOf(parts[1]), DigitsOf(parts[2])>>]
    ELSE [raised |-> "ValueError", logged |-> <<ErrRulestring>>]

\* np.isin(n, list)
IsIn(n, list) == \E i \in 1..Len(list) : list[i] = n

\* A mutant of LifeRule: the survival rule tests the birth requirements.
LifeRuleBirthOnly(A, r) ==
    LET parsed == ParseRulestring(r)
        neighbors == CountNeighbors(A)
    IN  IF parsed.raised # "none" THEN [raised |-> parsed.raised]
        ELSE [raised |-> "none",
              value |-> [p \in DOMAIN A |->
                  \/ AsInt(A[p]) = 0 /\ IsIn(neighbors[p], parsed.value[1])
                  \/ AsInt(A[p]) = 1 /\ IsIn(neighbors[p], parsed.value[1])]]

\* life_rule(X, rulestring)
LifeRule(A, r) ==
    LET parsed == ParseRulestring(r)
        neighbors == CountNeighbors(A)
    IN  IF parsed.raised # "none" THEN [raised |-> parsed.raised]
        ELSE [raised |-> "none",
              value |-> [p \in DOMAIN A |->
                  \/ AsInt(A[p]) = 0 /\ IsIn(neighbors[p], parsed.value[1])
                  \/ AsInt(A[p]) = 1 /\ IsIn(neighbors[p], parsed.value[2])]]

\* conway_classic(X)
ConwayClassic(A) == LifeRule(A, <<"B", "3", "/", "S", "2", "3">>)

\* A mutant of RpsLifeRule: a cell cycles out on the neighbours in its own
\* state instead of those in the next state.
RpsLifeRuleOwnState(A, thresholds) ==
    LET shape == Shape3(A)
        n == shape[1]
        neighbors == [s \in 0..(n - 1) |->
                        LET cnt == CountNeighbors(Layer(A, shape, s))
                        IN  [p \in DOMAIN cnt |-> AsBool(cnt[p])]]
    IN  [q \in DOMAIN A |->
            LET s == q[1]
                p == <<q[2], q[3]>>
                prev == IF s - 1 < 0 THEN s - 1 + n ELSE s - 1
                cycles_in == /\ AsInt(A[<<prev, p[1], p[2]>>]) = 1
                             /\ AsInt(neighbors[s][p]) \in thresholds
                cycles_out == AsInt(neighbors[s][p]) \in thresholds
            IN  (AsInt(A[q]) = 1 /\ ~cycles_out) \/ cycles_in]

\* rps_life_rule(X, cycle_thresholds) for a bool stack X, as
\* MultiStateBoard.state is: neighbors = np.zeros_like(X) is a bool array,
\* so each stored count becomes count != 0, and np.isin compares that
\* boolean (0 or 1) with the thresholds.
RpsLifeRule(A, thresholds) ==
    LET shape == Shape3(A)
        n == shape[1]
        neighbors == [s \in 0..(n - 1) |->
                        LET cnt == CountNeighbors(Layer(A, shape, s))
                        IN  [p \in DOMAIN cnt |-> AsBool(cnt[p])]]
    IN  [q \in DOMAIN A |->
            LET s == q[1]
                p == <<q[2], q[3]>>
                prev == IF s - 1 < 0 THEN s - 1 + n ELSE s - 1
                cycles_in == /\ AsInt(A[<<prev, p[1], p[2]>>]) = 1
                             /\ AsInt(neighbors[s][p]) \in thresholds
                cycles_out == AsInt(neighbors[(s + 1) % n][p]) \in thresholds
            IN  (AsInt(A[q]) = 1 /\ ~cycles_out) \/ cycles_in]

NoOut == [fn |-> "none"]

BoardsUnused ==
    /\ cls = Unused
    /\ size = Unused
    /\ state = Unused
    /\ raised = Unused
    /\ logged = Unused
    /\ call = Unused

\* Sequences over S of length at most n.
SeqsUpTo(S, n) == UNION {[1..k -> S] : k \in 0..n}

\* "B" digits "/" "S" digits
RulestringOf(birth, survival) ==
    <<"B">> \o birth \o <<"/", "S">> \o survival

\* Digits the rulestrings given to life_rule are built from: neighbour
\* counts that occur on the grids tried (0, 2, 3, 6).
RuleDigits == {"0", "2", "3", "6"}

\* Rulestrings of the grammar with at most MaxDigits digits in all, in any
\* order and with repetitions.
ValidRulestrings ==
    {RulestringOf(d[1], d[2]) :
        d \in {e \in SeqsUpTo(RuleDigits, MaxDigits)
                       \X SeqsUpTo(RuleDigits, MaxDigits) :
                   Len(e[1]) + Len(e[2]) <= MaxDigits}}

\* Boolean grids of at most MaxGridCells cells.
Grids == UNION {[Idx2(shape) -> BOOLEAN] : shape \in Shapes(MaxGridCells)}

\* One-hot stacks of n layers over a grid of the given shape.
OneHotStacks(n, shape) ==
    {[p \in Idx3(<<n, shape[1], shape[2]>>) |-> p[1] = f[<<p[2], p[3]>>]] :
        f \in [Idx2(shape) -> 0..(n - 1)]}

\* Threshold sets: subsets of 0..8 with at most MaxThresholds members.
ThresholdSets == {T \in SUBSET (0..8) : Cardinality(T) <= MaxThresholds}

\* Characters the parser is tried on: the grammar's letters, digits inside
\* and outside 0..8, and a character that is neither.
ParseAlphabet == {"B", "S", "/", "0", "3", "8", "9", "x"}

InitLife ==
    /\ BoardsUnused
    /\ X \in Grids
    /\ rulestring \in ValidRulestrings
    /\ cycle_thresholds = Unused
    /\ out = NoOut

\* neighbors = _count_neighbors(X)
CountNeighborsCall ==
    /\ out' = [fn |-> "_count_neighbors", raised |-> "none",
               value |-> CountNeighbors(X)]
    /\ UNCHANGED <<X, rulestring, cycle_thresholds>>
    /\ UNCHANGED boardVars

\* life_rule(X, rulestring)
LifeRuleCall ==
    /\ out' = [fn |-> "life_rule"] @@ LifeRule(X, rulestring)
    /\ UNCHANGED <<X, rulestring, cycle_thresholds>>
    /\ UNCHANGED boardVars

\* conway_classic(X)
ConwayClassicCall ==
    /\ out' = [fn |-> "conway_classic"] @@ ConwayClassic(X)
    /\ UNCHANGED <<X, rulestring, cycle_thresholds>>
    /\ UNCHANGED boardVars

NextLife ==
    \/ CountNeighborsCall
    \/ LifeRuleCall
    \/ ConwayClassicCall

SpecLife == InitLife /\ [][NextLife]_vars

InitRps ==
    /\ BoardsUnused
    /\ \E n \in 1..MaxLayers, shape \in Shapes(MaxGridCells) :
           X \in OneHotStacks(n, shape)
    /\ rulestring = Unused
    /\ cycle_thresholds \in ThresholdSets
    /\ out = NoOut

\* rps_life_rule(X, cycle_thresholds)
RpsLifeRuleCall ==
    /\ out' = [fn |-> "rps_life_rule", raised |-> "none",
               value |-> RpsLifeRule(X, cycle_thresholds)]
    /\ UNCHANGED <<X, rulestring, cycle_thresholds>>
    /\ UNCHANGED boardVars

\* The driver's loop, state = rule(state): the returned stack is the input
\* of the next application.
SimulatorTick ==
    /\ out.fn = "rps_life_rule"
    /\ X' = out.value
    /\ out' = NoOut
    /\ UNCHANGED <<rulestring, cycle_thresholds>>
    /\ UNCHANGED boardVars

NextRps ==
    \/ RpsLifeRuleCall
    \/ SimulatorTick

SpecRps == InitRps /\ [][NextRps]_vars

InitParse ==
    /\ BoardsUnused
    /\ X = Unused
    /\ rulestring \in SeqsUpTo(ParseAlphabet, MaxLen)
    /\ cycle_thresholds = Unused
    /\ out = NoOut

\* _parse_rulestring(r)
ParseRulestringCall ==
    /\ out' = [fn |-> "_parse_rulestring"] @@ ParseRulestring(rulestring)
    /\ UNCHANGED <<X, rulestring, cycle_thresholds>>
    /\ UNCHANGED boardVars

NextParse == ParseRulestringCall

SpecParse == InitParse /\ [][NextParse]_vars

\* Exactly one state layer is TRUE at every cell position.
OneHot(st, shape) ==
    \A r \in 0..(shape[2] - 1), c \in 0..(shape[3] - 1) :
        Cardinality({s \in 0..(shape[1] - 1) : st[<<s, r, c>>]}) = 1

\* The last call was an add whose footprint lay inside the grid and whose
\* state index was in 0..states-1.
ValidAdd(c) == c.op = "add" /\ ~c.out_of_bounds /\ c.state_in_range

\* C1: a MultiStateBoard is one-hot after construction, and every valid add
\* (footprint inside the grid, 0 <= state < states, any layout, footprints
\* free to overlap) made on a one-hot board leaves it one-hot; so it is
\* one-hot after any finite sequence of valid adds.
C1_OneHotAfterValidAdds ==
    /\ cls = "MultiStateBoard" => OneHot(state, size)
    /\ [][(cls = "MultiStateBoard" /\ OneHot(state, size) /\ ValidAdd(call'))
            => OneHot(state', size')]_vars

\* A valid add has moved a cell of a board with several states out of
\* state 0, and the board is one-hot.
C1_Witness ==
    /\ cls = "MultiStateBoard"
    /\ size[1] >= 2
    /\ ValidAdd(call)
    /\ \E p \in DOMAIN state : p[1] = 1 /\ state[p]
    /\ OneHot(state, size)

\* C2: Board.add raises ValueError whenever the footprint extends past a grid
\* edge (row < 0, col < 0, row + h > R or col + w > C).
C2_RaisesWheneverOutside ==
    (cls = "Board" /\ call.op = "add" /\ call.out_of_bounds)
        => raised = "ValueError"

\* C3: whenever add raises, on either board class, the state array after the
\* call equals the state array before it, cell for cell and layer for layer.
C3_AddAllOrNothing ==
    [][(call'.op = "add" /\ raised' = "ValueError") => state' = state]_vars

\* An add has raised on a board that already holds a live cell.
C3_Witness ==
    /\ call.op = "add"
    /\ raised = "ValueError"
    /\ \E p \in DOMAIN state : state[p]
    /\ cls = "Board"

\* C7: a MultiStateBoard is one-hot at all times: after construction, and
\* after every valid add and every clear() made on a one-hot board.
C7_OneHotAfterClear ==
    /\ cls = "MultiStateBoard" => OneHot(state, size)
    /\ [][(/\ cls = "MultiStateBoard"
           /\ OneHot(state, size)
           /\ ValidAdd(call') \/ call'.op = "clear")
            => OneHot(state', size')]_vars

\* C10: every MultiStateBoard.add whose state index lies outside
\* 0..states-1, negative or too large, logs the invalid-state error before
\* anything else.
C10_InvalidStateLogged ==
    (cls = "MultiStateBoard" /\ call.op = "add" /\ ~call.state_in_range)
        => (Len(logged) >= 1 /\ logged[1] = ErrInvalidState)

----------------------------------------------------------------------------
(* Rule engine: what the functions are specified to compute.               *)

\* The eight Moore offsets; the cell itself is not one of them.
Offsets8 == ((-1..1) \X (-1..1)) \ {<<0, 0>>}

\* Number of offsets whose toroidally wrapped neighbour of p is alive.
MooreCount(A, shape, p) ==
    Cardinality({d \in Offsets8 :
        A[<<(p[1] + d[1]) % shape[1], (p[2] + d[2]) % shape[2]>>]})

\* A shifted cyclically by dr rows and dc columns.
Roll(A, shape, dr, dc) ==
    [p \in DOMAIN A |-> A[<<(p[1] - dr) % shape[1], (p[2] - dc) % shape[2]>>]]

\* The next generation under birth set B and survival set S.
ExpectedLife(A, B, S) ==
    LET shape == Shape2(A)
    IN  [p \in DOMAIN A |->
            \/ ~A[p] /\ MooreCount(A, shape, p) \in B
            \/ A[p] /\ MooreCount(A, shape, p) \in S]

\* The numbers a run of digit characters names.
DigitSet(run) == {IntOf(run[i]) : i \in 1..Len(run)}

\* r has exactly the form "B" digits "/" "S" digits, every digit in 0..8.
FullMatch(r) ==
    /\ Len(r) >= 3
    /\ r[1] = "B"
    /\ \E k \in 2..(Len(r) - 1) :
           /\ r[k] = "/"
           /\ r[k + 1] = "S"
           /\ \A m \in 2..(k - 1) : r[m] \in Digits08
           /\ \A m \in (k + 2)..Len(r) : r[m] \in Digits08

\* C4: for a one-hot bool stack of N >= 2 layers, rps_life_rule moves a cell
\* in state s to state (s+1) mod N iff the number of its 8 toroidal Moore
\* neighbours in state (s+1) mod N is in the threshold set; every other cell
\* keeps its state.
C4_RpsCyclesOnCount ==
    (out.fn = "rps_life_rule" /\ Shape3(X)[1] >= 2) =>
        LET shape == Shape3(X)
            n == shape[1]
        IN  \A s \in 0..(n - 1), r \in 0..(shape[2] - 1),
               c \in 0..(shape[3] - 1) :
                X[<<s, r, c>>] =>
                    LET nxt == (s + 1) % n
                        cnt == MooreCount(Layer(X, shape, nxt),
                                          <<shape[2], shape[3]>>, <<r, c>>)
                        target == IF cnt \in cycle_thresholds THEN nxt ELSE s
                    IN  \A t \in 0..(n - 1) :
                            out.value[<<t, r, c>>] = (t = target)

\* C5: for a rulestring of the grammar with birth digits B and survival
\* digits S, a cell of life_rule(X, rulestring) is alive iff it was dead with
\* a neighbour count in B or alive with a neighbour count in S;
\* conway_classic(X) is that with B = {3}, S = {2, 3}.
C5_LifeRule ==
    /\ out.fn = "life_rule" =>
           \A k \in 1..Len(rulestring) :
               rulestring[k] = "/" =>
                   LET b == SubSeq(rulestring, 2, k - 1)
                       sv == SubSeq(rulestring, k + 2, Len(rulestring))
                   IN  /\ rulestring = RulestringOf(b, sv)
                       /\ out.raised = "none"
                       /\ out.value
                            = ExpectedLife(X, DigitSet(b), DigitSet(sv))
    /\ out.fn = "conway_classic" =>
           /\ out.raised = "none"
           /\ out.value = ExpectedLife(X, {3}, {2, 3})

\* life_rule has returned a grid in which one cell was born and another
\* survived.
C5_Witness ==
    /\ out.fn = "life_rule"
    /\ out.raised = "none"
    /\ \E p \in DOMAIN X : ~X[p] /\ out.value[p]
    /\ \E p \in DOMAIN X : X[p] /\ out.value[p]

\* C6: _parse_rulestring succeeds only on a string that has, as a whole, the
\* form "B" digits "/" "S" digits with digits in 0..8; it fails on every
\* other string and returns nothing, so every returned number is in 0..8.
C6_ParseExactGrammar ==
    out.fn = "_parse_rulestring" =>
        /\ (out.raised = "none") <=> FullMatch(rulestring)
        /\ out.raised = "none" =>
               \A i \in 1..2 : \A j \in 1..Len(out.value[i]) :
                   out.value[i][j] \in 0..8
        /\ out.raised # "none" => "value" \notin DOMAIN out

\* C8: _count_neighbors(X) has X's shape, every entry is the number in 0..8
\* of live cells among the 8 toroidally wrapped Moore neighbours, and
\* counting commutes with every cyclic shift of X.
C8_CountNeighbors ==
    out.fn = "_count_neighbors" =>
        LET shape == Shape2(X)
        IN  /\ DOMAIN out.value = DOMAIN X
            /\ \A p \in DOMAIN X :
                   /\ out.value[p] \in 0..8
                   /\ out.value[p] = MooreCount(X, shape, p)
            /\ \A dr \in 0..(shape[1] - 1), dc \in 0..(shape[2] - 1) :
                   CountNeighbors(Roll(X, shape, dr, dc))
                       = Roll(out.value, shape, dr, dc)

\* Neighbours have been counted on a grid of two rows and two columns on
\* which the counts differ from cell to cell.
C8_Witness ==
    /\ out.fn = "_count_neighbors"
    /\ Shape2(X) = <<2, 2>>
    /\ \E p, q \in DOMAIN X : out.value[p] = 2 /\ out.value[q] = 6

\* C9: rps_life_rule maps a one-hot stack to a one-hot stack of the same
\* shape, for every number of layers and every threshold set, so the stack
\* stays one-hot through successive applications.
C9_RpsKeepsOneHot ==
    /\ out.fn = "rps_life_rule" =>
           /\ DOMAIN out.value = DOMAIN X
           /\ OneHot(out.value, Shape3(X))
    /\ OneHot(X, Shape3(X))

\* rps_life_rule has moved some cell of a stack of three or more layers to
\* another state.
C9_Witness ==
    /\ out.fn = "rps_life_rule"
    /\ Shape3(X)[1] >= 3
    /\ out.value # X
    /\ OneHot(out.value, Shape3(X))

====
